---- MODULE Spec2Model ----
(***************************************************************************)
(* Model of the deep-research job orchestrator, src/deep_research/main.py: *)
(* main() fetches the pending rows of table ccas_city into a FIFO deque of *)
(* Job objects and process_jobs() drains it, one job per loop iteration,   *)
(* submitting, polling, saving and retrying against a retry budget and a   *)
(* timeout.                                                                *)
(*                                                                         *)
(* Time is counted in whole minutes.  Only the difference                  *)
(* datetime.now() - job.submitted_at is ever read (line 70), so stamps are *)
(* kept relative to the current instant, which is pinned at now: letting   *)
(* d minutes pass moves every stored stamp d minutes into the past.  A     *)
(* stamp older than JOB_TIMEOUT_MINUTES + 1 minutes compares with the      *)
(* timeout exactly as one of that age does, and is kept at that age.       *)
(***************************************************************************)
EXTENDS Integers, Sequences, FiniteSets, TLC

(* ------------------------------------------------------------------ *)
(* Program constants (main.py lines 17-19)                            *)
(* ------------------------------------------------------------------ *)
JOB_TIMEOUT_MINUTES == 20
MAX_RETRIES == 2

(* ------------------------------------------------------------------ *)
(* Bounds of the model                                                *)
(* ------------------------------------------------------------------ *)
\* number of rows of table ccas_city
NRows == 2

RowIds == 1..NRows

(* ------------------------------------------------------------------ *)
(* Values and time                                                    *)
(* ------------------------------------------------------------------ *)
\* Python's None for job.job_id and job.submitted_at; SQL NULL for a column
None == -1
NULL == "NULL"

\* the current instant, in the frame that moves with the clock
now == JOB_TIMEOUT_MINUTES + 1

\* minutes that can pass during one loop iteration (API latency plus the
\* time.sleep(POLL_INTERVAL) calls): none to speak of, exactly the timeout,
\* or more than the timeout
Delays == {0, JOB_TIMEOUT_MINUTES, JOB_TIMEOUT_MINUTES + 1}

Max(a, b) == IF a >= b THEN a ELSE b

(* ------------------------------------------------------------------ *)
(* Output texts of the external job and their decoding                *)
(* ------------------------------------------------------------------ *)
\* The output columns written by save_result; two of the fifteen, which
\* are all written the same way: the status column that decides whether a
\* row is pending, and one other.
Columns == {"ccas_status", "notes"}

\* the value of a key the JSON object does not have: dict.get gives None
Absent == "ABSENT"

\* A Python value out of json.loads: its kind, its length if it is an
\* object or an array, and what .get gives for each column if it is an
\* object
NoFields == [c \in Columns |-> Absent]

Dict(status, notes, others) ==
    [kind |-> "dict",
     size |-> (IF status = Absent THEN 0 ELSE 1) + (IF notes = Absent THEN 0 ELSE 1)
              + others,
     fields |-> [c \in Columns |-> IF c = "ccas_status" THEN status ELSE notes]]

\* JSON documents the external job can print, by name, with the Python
\* value json.loads gives for each: objects with both columns, without the
\* status column and with no key at all, and an array
DocValue(doc) ==
    CASE doc = "D_full"     -> Dict("Coordinated", "n", 0)
      [] doc = "D_nostatus" -> Dict(Absent, "n", 0)
      [] doc = "D_empty"    -> Dict(Absent, Absent, 0)
      [] doc = "D_list"     -> [kind |-> "list", size |-> 1, fields |-> NoFields]

Docs == {"D_full", "D_nostatus", "D_empty", "D_list"}

\* A text is a sequence of tokens: a code fence, the tag json, a run of
\* whitespace, a JSON document, or anything else.
\* the three backticks of a code fence
FENCE == "FENCE"
TAG == "json"
WS == "\n"
JUNK == "junk"

IsWS(tok) == tok = WS

RECURSIVE lstrip(_)
lstrip(text) ==
    IF text # <<>> /\ IsWS(Head(text)) THEN lstrip(Tail(text)) ELSE text

RECURSIVE rstrip(_)
rstrip(text) ==
    IF text # <<>> /\ IsWS(text[Len(text)])
    THEN rstrip(SubSeq(text, 1, Len(text) - 1))
    ELSE text

\* str.strip()
strip(text) == rstrip(lstrip(text))

\* The JSONDecodeError of json.loads
JSONDecodeError == [kind |-> "JSONDecodeError", size |-> 0, fields |-> NoFields]

\* json.loads(text): whitespace around one document is allowed, nothing else
json_loads(text) ==
    LET t == strip(text)
    IN  IF Len(t) = 1 /\ t[1] \in Docs THEN DocValue(t[1]) ELSE JSONDecodeError

\* line 80 with the pattern lacking the optional tag: at the start, a fence
\* and the whitespace after it are removed
sub_leading_fence_no_tag(s) ==
    IF s # <<>> /\ Head(s) = FENCE THEN lstrip(Tail(s)) ELSE s

\* line 80, re.sub of the pattern: at the start, a fence, an optional tag
\* json and the whitespace after them are removed
sub_leading_fence(s) ==
    IF s # <<>> /\ Head(s) = FENCE
    THEN LET r == Tail(s)
         IN  IF r # <<>> /\ Head(r) = TAG THEN lstrip(Tail(r)) ELSE lstrip(r)
    ELSE s

\* line 81, re.sub of the pattern: at the end, a fence and the whitespace
\* before it are removed
sub_trailing_fence(s) ==
    IF s # <<>> /\ s[Len(s)] = FENCE
    THEN rstrip(SubSeq(s, 1, Len(s) - 1))
    ELSE s

\* lines 75-85 of poll_result: decode, and on failure strip the fences and
\* decode once more
decode(output_text) ==
    IF json_loads(output_text).kind # "JSONDecodeError"
    THEN json_loads(output_text)
    ELSE json_loads(sub_trailing_fence(sub_leading_fence(strip(output_text))))

\* the texts the external job is let to print
Texts ==
    {<<d>> : d \in Docs}
    \cup {<<FENCE, TAG, WS, "D_full", WS, FENCE>>, <<FENCE, JUNK, FENCE>>}

\* Python truthiness of a decoded value (line 157, and json_output): an
\* empty object, an empty array and null are false
Truthy(v) == v.kind \in {"dict", "list"} /\ v.size > 0

\* None as a value of json_output (poll_result returns False, None)
NoneValue == [kind |-> "None", size |-> 0, fields |-> NoFields]

(* ------------------------------------------------------------------ *)
(* The record store: table ccas_city                                  *)
(* ------------------------------------------------------------------ *)
\* SQL TRIM(x): leading and trailing spaces removed
TRIM(x) == IF x \in {"", " "} THEN "" ELSE x

\* what the status column of a row can hold before the run
InitStatuses == {NULL, "Coordinated"}

\* a row: the input column country and the output columns
Row(r, status) == [country |-> r, ccas_status |-> status, notes |-> NULL]

\* the WHERE clause without its first disjunct: TRIM of NULL is NULL, and
\* NULL = '' selects nothing
IsPendingRow_no_null(row) == row.ccas_status # NULL /\ TRIM(row.ccas_status) = ""

\* the WHERE clause of fetch_pending_rows (line 38)
IsPendingRow(row) == row.ccas_status = NULL \/ TRIM(row.ccas_status) = ""

(* ------------------------------------------------------------------ *)
(* class Job (lines 21-31)                                            *)
(* ------------------------------------------------------------------ *)
Job(rowid, country) ==
    [rowid |-> rowid, country |-> country, job_id |-> None,
     submitted_at |-> None, completed |-> FALSE, failed |-> FALSE, times |-> 0]

\* fetch_pending_rows (lines 33-50): one Job per selected row, in rowid
\* order; the result lists the Job objects, and the deque holds them in
\* the same order
RECURSIVE fetch_from(_, _)
fetch_from(table, r) ==
    IF r > NRows THEN <<>>
    ELSE (IF IsPendingRow(table[r]) THEN <<Job(r, table[r].country)>> ELSE <<>>)
         \o fetch_from(table, r + 1)

\* fetch_pending_rows with every selected row returned twice
fetch_pending_rows_twice(table) == fetch_from(table, 1) \o fetch_from(table, 1)

fetch_pending_rows(table) == fetch_from(table, 1)

(* ------------------------------------------------------------------ *)
(* The external compute job API                                       *)
(* ------------------------------------------------------------------ *)
\* status strings retrieve can report: the four the program tests for, and
\* two it does not know
Statuses == {"queued", "running", "succeeded", "completed", "failed", "cancelled"}

\* the statuses with which an external job is over
Finished == {"succeeded", "completed", "failed", "cancelled"}

\* what client.responses.retrieve does: it raises, or returns a status
\* and an output text (the text only matters with a completion status)
Responses ==
    {[raised |-> TRUE, status |-> "-", output_text |-> <<>>]}
    \cup {[raised |-> FALSE, status |-> st, output_text |-> <<>>] :
            st \in Statuses \ {"succeeded", "completed"}}
    \cup {[raised |-> FALSE, status |-> "completed", output_text |-> t] : t \in Texts}
    \cup {[raised |-> FALSE, status |-> "succeeded", output_text |-> <<"D_full">>]}

\* the response of a pass that does not call retrieve
NoResponse == [raised |-> TRUE, status |-> "-", output_text |-> <<>>]

\* what client.responses.create and the UPDATE of save_result do
Outcomes == {"ok", "raise"}

(* ------------------------------------------------------------------ *)
(* submit_job, poll_result, to_text, save_result                      *)
(* ------------------------------------------------------------------ *)
\* submit_job without line 60: the stamp is not set
submit_job_no_stamp(job, create, id) ==
    IF create = "raise"
    THEN [raised |-> TRUE, job |-> job]
    ELSE [raised |-> FALSE,
          job |-> [job EXCEPT !.job_id = id, !.times = job.times + 1]]

\* submit_job (lines 52-63); create raising leaves the job as it was
submit_job(job, create, id) ==
    IF create = "raise"
    THEN [raised |-> TRUE, job |-> job]
    ELSE [raised |-> FALSE,
          job |-> [job EXCEPT !.job_id = id, !.submitted_at = now,
                              !.times = job.times + 1]]

\* line 70; an absent stamp makes the subtraction raise
elapsed(job) == now - job.submitted_at

\* line 86, second disjunct, with >= for >
timed_out_at_limit(job) == elapsed(job) >= JOB_TIMEOUT_MINUTES

\* line 86, second disjunct
timed_out(job) == elapsed(job) > JOB_TIMEOUT_MINUTES

\* poll_result with line 89 returning False: a job that is still going is
\* taken for a failed one
poll_result_no_pending(job, resp) ==
    IF resp.raised \/ job.job_id = None \/ job.submitted_at = None
    THEN [done |-> "False", json_output |-> NoneValue]
    ELSE IF resp.status \in {"succeeded", "completed"}
    THEN IF decode(resp.output_text).kind # "JSONDecodeError"
         THEN [done |-> "True", json_output |-> decode(resp.output_text)]
         ELSE [done |-> "False", json_output |-> NoneValue]
    ELSE [done |-> "False", json_output |-> NoneValue]

\* poll_result with line 85 returning True, None: a text that cannot be
\* decoded is reported as a result
poll_result_true_none(job, resp) ==
    IF resp.raised \/ job.job_id = None \/ job.submitted_at = None
    THEN [done |-> "False", json_output |-> NoneValue]
    ELSE IF resp.status \in {"succeeded", "completed"}
    THEN IF decode(resp.output_text).kind # "JSONDecodeError"
         THEN [done |-> "True", json_output |-> decode(resp.output_text)]
         ELSE [done |-> "True", json_output |-> NoneValue]
    ELSE IF resp.status \in {"failed", "cancelled"} \/ timed_out(job)
    THEN [done |-> "False", json_output |-> NoneValue]
    ELSE [done |-> "None", json_output |-> NoneValue]

\* poll_result with line 86 naming the status incomplete as well
poll_result_incomplete_fails(job, resp) ==
    IF resp.raised \/ job.job_id = None \/ job.submitted_at = None
    THEN [done |-> "False", json_output |-> NoneValue]
    ELSE IF resp.status \in {"succeeded", "completed"}
    THEN IF decode(resp.output_text).kind # "JSONDecodeError"
         THEN [done |-> "True", json_output |-> decode(resp.output_text)]
         ELSE [done |-> "False", json_output |-> NoneValue]
    ELSE IF resp.status \in {"failed", "cancelled", "incomplete"} \/ timed_out(job)
    THEN [done |-> "False", json_output |-> NoneValue]
    ELSE [done |-> "None", json_output |-> NoneValue]

\* poll_result with the timeout tested before the status (the second
\* disjunct of line 86 moved above line 73)
poll_result_timeout_first(job, resp) ==
    IF resp.raised \/ job.job_id = None \/ job.submitted_at = None
    THEN [done |-> "False", json_output |-> NoneValue]
    ELSE IF timed_out(job)
    THEN [done |-> "False", json_output |-> NoneValue]
    ELSE IF resp.status \in {"succeeded", "completed"}
    THEN IF decode(resp.output_text).kind # "JSONDecodeError"
         THEN [done |-> "True", json_output |-> decode(resp.output_text)]
         ELSE [done |-> "False", json_output |-> NoneValue]
    ELSE IF resp.status \in {"failed", "cancelled"}
    THEN [done |-> "False", json_output |-> NoneValue]
    ELSE [done |-> "None", json_output |-> NoneValue]

\* poll_result (lines 66-92): done is True, False or None
poll_result(job, resp) ==
    IF resp.raised \/ job.job_id = None \/ job.submitted_at = None
    THEN [done |-> "False", json_output |-> NoneValue]
    ELSE IF resp.status \in {"succeeded", "completed"}
    THEN IF decode(resp.output_text).kind # "JSONDecodeError"
         THEN [done |-> "True", json_output |-> decode(resp.output_text)]
         ELSE [done |-> "False", json_output |-> NoneValue]
    ELSE IF resp.status \in {"failed", "cancelled"} \/ timed_out(job)
    THEN [done |-> "False", json_output |-> NoneValue]
    ELSE [done |-> "None", json_output |-> NoneValue]

\* to_text (lines 94-99) on the values a field of a decoded object takes
to_text(value) == IF value = Absent THEN "" ELSE value

\* save_result with the UPDATE setting notes from the column ccas_status
\* (its value before the statement) for the parameter
save_result_notes_from_column(table, job, json_output, update) ==
    IF json_output.kind # "dict"
    THEN [raised |-> "AttributeError", table |-> table]
    ELSE IF update = "raise"
    THEN [raised |-> "UPDATE", table |-> table]
    ELSE [raised |-> "-",
          table |-> [table EXCEPT ![job.rowid] =
              [@ EXCEPT !.ccas_status = to_text(json_output.fields["ccas_status"]),
                        !.notes = table[job.rowid].ccas_status]]]

\* save_result with the UPDATE lacking its WHERE clause: every row is
\* written
save_result_no_where(table, job, json_output, update) ==
    IF json_output.kind # "dict"
    THEN [raised |-> "AttributeError", table |-> table]
    ELSE IF update = "raise"
    THEN [raised |-> "UPDATE", table |-> table]
    ELSE [raised |-> "-",
          table |-> [r \in RowIds |->
              [table[r] EXCEPT !.ccas_status = to_text(json_output.fields["ccas_status"]),
                               !.notes = to_text(json_output.fields["notes"])]]]

\* save_result (lines 101-140): json_output.get raises on a value that is
\* no object (lines 122-136 are evaluated before the UPDATE runs), and the
\* UPDATE can raise; either way nothing is written
save_result(table, job, json_output, update) ==
    IF json_output.kind # "dict"
    THEN [raised |-> "AttributeError", table |-> table]
    ELSE IF update = "raise"
    THEN [raised |-> "UPDATE", table |-> table]
    ELSE [raised |-> "-",
          table |-> [table EXCEPT ![job.rowid] =
              [@ EXCEPT !.ccas_status = to_text(json_output.fields["ccas_status"]),
                        !.notes = to_text(json_output.fields["notes"])]]]

(* ------------------------------------------------------------------ *)
(* process_jobs (lines 142-181)                                       *)
(* ------------------------------------------------------------------ *)
\* line 149 with the conditions joined by or and the budget compared by <=
can_submit_loose(job) == job.job_id = None \/ job.times <= MAX_RETRIES

\* line 149 without the test of the budget
can_submit_no_budget(job) == job.job_id = None

\* line 149 with the budget of a single submission
can_submit_once(job) == job.job_id = None /\ job.times < 1

\* line 149
can_submit(job) == job.job_id = None /\ job.times < MAX_RETRIES

\* lines 161-167 without the test of the budget: the job fails at once
on_failure_no_retry(job) ==
    [job |-> [job EXCEPT !.failed = TRUE], requeue |-> FALSE]

\* lines 161-167 with the failed job appended to the deque as well
on_failure_requeue_failed(job) ==
    IF job.times < MAX_RETRIES
    THEN [job |-> [job EXCEPT !.job_id = None], requeue |-> TRUE]
    ELSE [job |-> [job EXCEPT !.failed = TRUE], requeue |-> TRUE]

\* lines 161-167 without line 163: the handle is kept for the retry
on_failure_keep_handle(job) ==
    IF job.times < MAX_RETRIES
    THEN [job |-> job, requeue |-> TRUE]
    ELSE [job |-> [job EXCEPT !.failed = TRUE], requeue |-> FALSE]

\* lines 161-167 with the retry counted as a submission (job.times += 1
\* before line 163)
on_failure_counts(job) ==
    IF job.times < MAX_RETRIES
    THEN [job |-> [job EXCEPT !.job_id = None, !.times = @ + 1], requeue |-> TRUE]
    ELSE [job |-> [job EXCEPT !.failed = TRUE], requeue |-> FALSE]

\* lines 161-167: the poll said False
on_failure(job) ==
    IF job.times < MAX_RETRIES
    THEN [job |-> [job EXCEPT !.job_id = None], requeue |-> TRUE]
    ELSE [job |-> [job EXCEPT !.failed = TRUE], requeue |-> FALSE]

\* lines 170-176: the handler of an exception out of submit_job or
\* save_result
on_exception(job) ==
    IF job.times < MAX_RETRIES
    THEN [job |-> [job EXCEPT !.job_id = None], requeue |-> TRUE]
    ELSE [job |-> [job EXCEPT !.failed = TRUE], requeue |-> FALSE]

\* lines 157-159 with line 159 before line 158: the job is marked completed
\* before save_result has a chance to raise
on_success_mark_first(table, job, json_output, update) ==
    LET sv == save_result(table, job, json_output, update)
        marked == [job EXCEPT !.completed = TRUE]
    IN  IF sv.raised # "-"
        THEN [job |-> on_exception(marked).job, requeue |-> on_exception(marked).requeue,
              table |-> sv.table, branch |-> "save_raise", error |-> sv.raised]
        ELSE [job |-> marked, requeue |-> FALSE,
              table |-> sv.table, branch |-> "success", error |-> "-"]

\* lines 157-159: save, then mark completed; an exception out of
\* save_result skips the mark and reaches the handler
on_success(table, job, json_output, update) ==
    LET sv == save_result(table, job, json_output, update)
    IN  IF sv.raised # "-"
        THEN [job |-> on_exception(job).job, requeue |-> on_exception(job).requeue,
              table |-> sv.table, branch |-> "save_raise", error |-> sv.raised]
        ELSE [job |-> [job EXCEPT !.completed = TRUE], requeue |-> FALSE,
              table |-> sv.table, branch |-> "success", error |-> "-"]

\* lines 155-169 without line 169: a job whose poll said None is not
\* appended to the deque again
poll_branch_drop_pending(table, job, resp, update) ==
    LET p == poll_result(job, resp)
    IN  IF p.done = "True" /\ Truthy(p.json_output)
        THEN on_success(table, job, p.json_output, update)
             @@ [saves |-> 1, created |-> FALSE, slept |-> TRUE]
        ELSE IF p.done = "False"
        THEN [job |-> on_failure(job).job, requeue |-> on_failure(job).requeue,
              table |-> table, branch |-> "failure", error |-> "-",
              saves |-> 0, created |-> FALSE, slept |-> TRUE]
        ELSE [job |-> job, requeue |-> FALSE, table |-> table, branch |-> "pending",
              error |-> "-", saves |-> 0, created |-> FALSE, slept |-> TRUE]

\* lines 155-169 with line 163 in the last branch as well: a job whose
\* poll said None loses its handle
poll_branch_pending_resets(table, job, resp, update) ==
    LET p == poll_result(job, resp)
    IN  IF p.done = "True" /\ Truthy(p.json_output)
        THEN on_success(table, job, p.json_output, update)
             @@ [saves |-> 1, created |-> FALSE, slept |-> TRUE]
        ELSE IF p.done = "False"
        THEN [job |-> on_failure(job).job, requeue |-> on_failure(job).requeue,
              table |-> table, branch |-> "failure", error |-> "-",
              saves |-> 0, created |-> FALSE, slept |-> TRUE]
        ELSE [job |-> [job EXCEPT !.job_id = None], requeue |-> TRUE,
              table |-> table, branch |-> "pending",
              error |-> "-", saves |-> 0, created |-> FALSE, slept |-> TRUE]

\* lines 155-169: poll the job and act on the answer
poll_branch(table, job, resp, update) ==
    LET p == poll_result(job, resp)
    IN  IF p.done = "True" /\ Truthy(p.json_output)
        THEN on_success(table, job, p.json_output, update)
             @@ [saves |-> 1, created |-> FALSE, slept |-> TRUE]
        ELSE IF p.done = "False"
        THEN [job |-> on_failure(job).job, requeue |-> on_failure(job).requeue,
              table |-> table, branch |-> "failure", error |-> "-",
              saves |-> 0, created |-> FALSE, slept |-> TRUE]
        ELSE [job |-> job, requeue |-> TRUE, table |-> table, branch |-> "pending",
              error |-> "-", saves |-> 0, created |-> FALSE, slept |-> TRUE]

\* lines 149-153 outside the try block: an exception out of create is
\* caught by nothing
submit_branch_uncaught(table, job, create, id) ==
    LET s == submit_job(job, create, id)
    IN  IF s.raised
        THEN [job |-> job, requeue |-> FALSE,
              table |-> table, branch |-> "uncaught", error |-> "create",
              saves |-> 0, created |-> FALSE, slept |-> FALSE]
        ELSE [job |-> s.job, requeue |-> TRUE, table |-> table, branch |-> "submit",
              error |-> "-", saves |-> 0, created |-> TRUE, slept |-> TRUE]

\* lines 149-153 and, when create raises, 170-176
submit_branch(table, job, create, id) ==
    LET s == submit_job(job, create, id)
    IN  IF s.raised
        THEN [job |-> on_exception(job).job, requeue |-> on_exception(job).requeue,
              table |-> table, branch |-> "submit_raise", error |-> "create",
              saves |-> 0, created |-> FALSE, slept |-> TRUE]
        ELSE [job |-> s.job, requeue |-> TRUE, table |-> table, branch |-> "submit",
              error |-> "-", saves |-> 0, created |-> TRUE, slept |-> TRUE]

\* lines 145-177 without lines 151-153: the job just submitted is polled in
\* the same pass
loop_body_no_continue(table, job, create, id, resp, update) ==
    IF job.completed \/ job.failed
    THEN [job |-> job, requeue |-> FALSE, table |-> table, branch |-> "skip",
          error |-> "-", saves |-> 0, created |-> FALSE, slept |-> FALSE]
    ELSE IF can_submit(job)
    THEN IF submit_branch(table, job, create, id).branch = "submit"
         THEN [poll_branch(table, submit_branch(table, job, create, id).job,
                           resp, update) EXCEPT !.created = TRUE]
         ELSE submit_branch(table, job, create, id)
    ELSE poll_branch(table, job, resp, update)

\* lines 145-177: one pass of the loop body over the job just dequeued:
\* the job as it is left, whether it is appended to the deque, the table,
\* the branch taken, the call that raised, the calls of save_result,
\* whether an external job was created, and whether the pass slept (the
\* continue of line 146 does not)
loop_body(table, job, create, id, resp, update) ==
    IF job.completed \/ job.failed
    THEN [job |-> job, requeue |-> FALSE, table |-> table, branch |-> "skip",
          error |-> "-", saves |-> 0, created |-> FALSE, slept |-> FALSE]
    ELSE IF can_submit(job)
    THEN submit_branch(table, job, create, id)
    ELSE poll_branch(table, job, resp, update)

\* job_queue.popleft() (line 144) and job_queue.append(job) (lines 151,
\* 164, 169 and 174) on the deque, head first
popleft(queue) == Tail(queue)

\* job_queue.appendleft(job): the job goes back to the head of the deque
appendleft(queue, j) == <<j>> \o queue

append(queue, j) == Append(queue, j)

\* d minutes pass (the sleeps of lines 152 and 177, and the time the calls
\* take): every stamp moves d minutes into the past.  A stamp is read only
\* when its job is polled with a handle (line 70, after line 68); the stamp
\* of a job that has no handle, or is finished, is read no more and is kept
\* at the oldest age.
pass_time(job, d) ==
    IF job.submitted_at = None THEN job
    ELSE IF job.job_id = None \/ job.completed \/ job.failed
    THEN [job EXCEPT !.submitted_at = 0]
    ELSE [job EXCEPT !.submitted_at = Max(job.submitted_at - d, 0)]

(* ------------------------------------------------------------------ *)
(* State                                                              *)
(* ------------------------------------------------------------------ *)
VARIABLES
    pc,         \* where main() is: "main", "process", "closed", or "aborted"
                \* after an exception that nothing caught; "call" when one
                \* of the functions is called by itself
    db,         \* table ccas_city: rowid -> row
    jobs,       \* the Job objects made by fetch_pending_rows, by identity
    job_queue,  \* the deque: identities of Job objects, head first
    ext,        \* the external jobs created so far for each row; response.id
                \* is the row and the index, of which the job keeps the index
    save_calls, \* history: calls of save_result so far, per rowid
    got_true,   \* history: whether poll_result has returned True, per rowid
    last,       \* history: the loop pass just made
    pending_run, \* history: the passes in a row in which the poll said None
    turns,      \* history: for each job, the turns taken since its own
    call,       \* a function called by itself: its name and arguments
    ret         \* what the calls of that function have returned

vars == <<pc, db, jobs, job_queue, ext, save_calls, got_true, last,
          pending_run, turns, call, ret>>

\* no function is called by itself, and nothing has returned
NoCall == [fn |-> "none"]

NoRet == [calls |-> 0]

\* no pass with a pending poll has just been made
NoRun == [snap |-> <<>>, streak |-> 0]

\* the job has not been dequeued, or has left the deque
NoTurn == [behind |-> {}, seen |-> [k \in RowIds |-> 0]]

NoPass ==
    [job |-> 0, branch |-> "none", times |-> 0, job_id |-> None, done |-> "-",
     error |-> "-", saves |-> 0]

Init ==
    /\ pc = "main"
    /\ db \in {t \in [RowIds -> {Row(r, st) : r \in RowIds, st \in InitStatuses}] :
                  \A r \in RowIds : t[r].country = r}
    /\ jobs = <<>>
    /\ job_queue = <<>>
    /\ ext = [r \in RowIds |-> <<>>]
    /\ save_calls = [r \in RowIds |-> 0]
    /\ got_true = [r \in RowIds |-> FALSE]
    /\ last = NoPass
    /\ pending_run = NoRun
    /\ turns = [j \in RowIds |-> NoTurn]
    /\ call = NoCall
    /\ ret = NoRet

\* main, lines 184-188: the deque holds the fetched jobs in order
main_fetch ==
    /\ pc = "main"
    /\ jobs' = fetch_pending_rows(db)
    /\ job_queue' = [i \in 1..Len(fetch_pending_rows(db)) |-> i]
    /\ pc' = "process"
    /\ UNCHANGED <<db, ext, save_calls, got_true, last, pending_run, turns,
                   call, ret>>

\* why a pass gave up the external job it polled: the job is known to be
\* over, retrieve raised, or the job was still going and the time was up
give_up_reason(job, resp) ==
    IF ext[job.rowid][job.job_id].finished
       \/ (~resp.raised /\ resp.status \in Finished) THEN "over"
    ELSE IF resp.raised THEN "error"
    ELSE IF timed_out(job) THEN "timeout"
    ELSE "other"

\* the external jobs of the row after a pass: one more if create returned;
\* the polled one is over once retrieve has reported a finishing status,
\* and is marked with the reason when the pass sends the job back for
\* another submission
ext_after(job, resp, R) ==
    LET mine == ext[job.rowid]
        polled == R.branch \notin {"skip", "submit", "submit_raise"}
                  /\ job.job_id # None
        seen == IF polled /\ ~resp.raised /\ resp.status \in Finished
                THEN [mine EXCEPT ![job.job_id].finished = TRUE]
                ELSE mine
        left == IF polled /\ R.branch \in {"failure", "save_raise"} /\ R.requeue
                THEN [seen EXCEPT ![job.job_id].abandoned = give_up_reason(job, resp)]
                ELSE seen
    IN  IF R.created
        THEN Append(left, [finished |-> FALSE, abandoned |-> "no"])
        ELSE left

\* the run of pending passes after a pass: the deque as it was before the
\* first pass of the run, and the passes made since; a run as long as the
\* deque it began with is a full round, and the next pending pass begins
\* another
pending_run_after(R) ==
    IF R.branch # "pending" THEN NoRun
    ELSE IF pending_run.streak = 0 \/ pending_run.streak = Len(pending_run.snap)
    THEN [snap |-> job_queue, streak |-> 1]
    ELSE [pending_run EXCEPT !.streak = @ + 1]

\* the turns after job j has been dequeued: j begins to wait for the jobs
\* behind it in the deque (or is gone), and every job waiting for j has
\* seen one more turn of it (two stand for two or more)
turns_after(j, R) ==
    [i \in RowIds |->
        IF i = j
        THEN IF R.requeue
             THEN [behind |-> {job_queue[k] : k \in 2..Len(job_queue)},
                   seen |-> NoTurn.seen]
             ELSE NoTurn
        ELSE IF j \in turns[i].behind
        THEN [turns[i] EXCEPT !.seen[j] = IF @ < 2 THEN @ + 1 ELSE @]
        ELSE turns[i]]

\* the state after one pass of the loop body over the head of the deque,
\* for what create, retrieve and the UPDATE do in it and the d minutes it
\* takes
pass(d, create, resp, update) ==
    LET j == Head(job_queue)
        job == jobs[j]
    IN  \E R \in {loop_body(db, job, create, Len(ext[job.rowid]) + 1, resp, update)},
           p \in {poll_result(job, resp)} :
          LET polls == R.branch \notin {"skip", "submit", "submit_raise"}
          IN  /\ jobs' = [i \in 1..Len(jobs) |->
                            pass_time(IF i = j THEN R.job ELSE jobs[i],
                                      IF R.slept THEN d ELSE 0)]
              /\ job_queue' = IF R.requeue THEN append(popleft(job_queue), j)
                              ELSE popleft(job_queue)
              \* an exception that leaves the loop body ends process_jobs
              /\ pc' = IF R.branch = "uncaught" THEN "aborted" ELSE pc
              /\ pending_run' = pending_run_after(R)
              /\ turns' = turns_after(j, R)
              /\ db' = R.table
              /\ ext' = [ext EXCEPT ![job.rowid] = ext_after(job, resp, R)]
              /\ save_calls' = [save_calls EXCEPT ![job.rowid] = @ + R.saves]
              /\ got_true' = [got_true EXCEPT ![job.rowid] =
                                  @ \/ (polls /\ p.done = "True")]
              \* the job passed, the branch taken, job.times and job.job_id
              \* as they were, what poll_result returned, the call that
              \* raised and the calls of save_result
              /\ last' = [job |-> j, branch |-> R.branch,
                          times |-> job.times, job_id |-> job.job_id,
                          done |-> IF polls THEN p.done ELSE "-",
                          error |-> R.error, saves |-> R.saves]

\* the answers retrieve can give for the job: an external job that is over
\* is reported as over
answers(job) ==
    IF job.job_id # None /\ ext[job.rowid][job.job_id].finished
    THEN {resp \in Responses : resp.raised \/ resp.status \in Finished}
    ELSE Responses

\* what the UPDATE can do in a pass: it runs only after a poll that gave a
\* true object
updates(job, resp) ==
    IF poll_result(job, resp).done = "True"
       /\ poll_result(job, resp).json_output.kind = "dict"
       /\ Truthy(poll_result(job, resp).json_output)
    THEN Outcomes
    ELSE {"ok"}

\* one iteration of the while loop of process_jobs (lines 143-181), taking
\* some number of minutes of D: create is called only in the submit branch,
\* retrieve only in the poll branch
iterate(D) ==
    /\ pc = "process"
    /\ job_queue # <<>>
    /\ LET job == jobs[Head(job_queue)]
       IN  IF job.completed \/ job.failed
           THEN pass(0, "ok", NoResponse, "ok")
           ELSE IF can_submit(job)
           THEN \E d \in D, create \in Outcomes : pass(d, create, NoResponse, "ok")
           ELSE \E d \in D, resp \in answers(job) :
                    \E update \in updates(job, resp) : pass(d, "ok", resp, update)
    /\ UNCHANGED <<call, ret>>

\* main, lines 190-191: process_jobs has returned
main_close ==
    /\ pc = "process"
    /\ job_queue = <<>>
    /\ pc' = "closed"
    /\ UNCHANGED <<db, jobs, job_queue, ext, save_calls, got_true, last,
                   pending_run, turns, call, ret>>

Next ==
    \/ main_fetch
    \/ iterate(Delays)
    \/ main_close

Spec == Init /\ [][Next]_vars

\* an iteration during which the clock moves on
time_advances == iterate(Delays \ {0})

\* The loop keeps running while the deque is not empty, and wall-clock time
\* keeps advancing (every iteration sleeps); nothing is assumed of what
\* create, retrieve and the UPDATE do.
LiveSpec == Spec /\ WF_vars(Next) /\ WF_vars(time_advances)

(* ------------------------------------------------------------------ *)
(* poll_result, save_result and the loop body called by themselves    *)
(* ------------------------------------------------------------------ *)
\* the minutes since its submission at which a job is polled
Elapsed ==
    {0, JOB_TIMEOUT_MINUTES - 1, JOB_TIMEOUT_MINUTES, JOB_TIMEOUT_MINUTES + 1}

\* a job as it is when it is polled: submitted t times, the last time e
\* minutes ago, with the handle of its t-th external job
PolledJobs ==
    {[Job(r, r) EXCEPT !.job_id = t, !.submitted_at = now - e, !.times = t] :
        r \in RowIds, e \in Elapsed, t \in 1..MAX_RETRIES}

\* a job without a handle whose budget is spent, with or without a stamp:
\* the loop body takes it to line 155 (no run with MAX_RETRIES = 2 dequeues
\* one, every job that loses its handle having times < MAX_RETRIES)
SpentJobs ==
    {[Job(r, r) EXCEPT !.submitted_at = st, !.times = MAX_RETRIES] :
        r \in RowIds, st \in {None, 0}}

\* status strings of retrieve, with two more the program does not know
AnyStatuses == Statuses \cup {"in_progress", "incomplete"}

\* the thing d between code fences: with or without the tag json, with or
\* without whitespace inside the fences
Fenced(d) ==
    {<<FENCE>> \o tag \o a \o <<d>> \o b \o <<FENCE>> :
        tag \in {<<>>, <<TAG>>}, a \in {<<>>, <<WS>>}, b \in {<<>>, <<WS>>}}

\* output texts: documents bare and fenced, whitespace around them, things
\* that are no document, and fences that are not paired
AnyTexts ==
    Texts
    \cup UNION {Fenced(d) : d \in Docs \cup {JUNK}}
    \cup {<<WS, "D_full", WS>>, <<WS, FENCE, TAG, "D_full", FENCE, WS>>}
    \cup {<<>>, <<JUNK>>, <<FENCE, "D_full">>, <<"D_full", FENCE>>,
          <<"D_full", "D_full">>}

\* what retrieve can return: the text matters with a completion status only
AnyResponses ==
    {NoResponse}
    \cup {[raised |-> FALSE, status |-> st, output_text |-> <<>>] :
            st \in AnyStatuses \ {"succeeded", "completed"}}
    \cup {[raised |-> FALSE, status |-> st, output_text |-> t] :
            st \in {"succeeded", "completed"}, t \in AnyTexts}

\* the values save_result is called with: line 157 lets the true ones pass
Payloads == {DocValue(d) : d \in {e \in Docs : Truthy(DocValue(e))}}

\* what the status column of a row can hold when the rows are fetched:
\* NULL, the empty string, a space, or a value
AnyStatusColumns == InitStatuses \cup {"", " "}

FetchCalls == {[fn |-> "fetch_pending_rows"]}

PollCalls ==
    {[fn |-> "poll_result", job |-> j, resp |-> a] :
        j \in PolledJobs, a \in AnyResponses}

SaveCalls ==
    {[fn |-> "save_result", job |-> j, json_output |-> v] :
        j \in {k \in PolledJobs : k.times = 1 /\ k.submitted_at = now},
        v \in Payloads}

LoopCalls ==
    {[fn |-> "loop_body", job |-> j, resp |-> a] :
        j \in PolledJobs \cup SpentJobs, a \in AnyResponses}

\* a function is about to be called: the table is as main finds it, with
\* the row of the job still pending
CallInit ==
    /\ pc = "call"
    /\ jobs = <<>>
    /\ job_queue = <<>>
    /\ ext = [r \in RowIds |-> <<>>]
    /\ save_calls = [r \in RowIds |-> 0]
    /\ got_true = [r \in RowIds |-> FALSE]
    /\ last = NoPass
    /\ pending_run = NoRun
    /\ turns = [j \in RowIds |-> NoTurn]
    /\ \/ /\ \/ call \in PollCalls
             \/ call \in SaveCalls
             \/ call \in LoopCalls
          /\ db \in {t \in [RowIds -> {Row(r, st) : r \in RowIds, st \in InitStatuses}] :
                        \A r \in RowIds : t[r].country = r}
          /\ IsPendingRow(db[call.job.rowid])
       \/ /\ call \in FetchCalls
          /\ db \in {t \in [RowIds -> {Row(r, st) : r \in RowIds,
                                                     st \in AnyStatusColumns}] :
                        \A r \in RowIds : t[r].country = r}
    /\ ret = NoRet

\* poll_result(job) is called, retrieve answering resp
apply_poll_result ==
    /\ pc = "call"
    /\ call.fn = "poll_result"
    /\ ret.calls = 0
    /\ \E p \in {poll_result(call.job, call.resp)} :
          ret' = [calls |-> 1, out |-> p, first |-> p]
    /\ UNCHANGED <<pc, db, jobs, job_queue, ext, save_calls, got_true, last,
                   pending_run, turns, call>>

\* save_result(conn, job, json_output) is called, once and once more
apply_save_result ==
    /\ pc = "call"
    /\ call.fn = "save_result"
    /\ ret.calls < 2
    /\ \E update \in Outcomes :
         \E sv \in {save_result(db, call.job, call.json_output, update)} :
            /\ db' = sv.table
            /\ ret' = [calls |-> ret.calls + 1, out |-> sv,
                       first |-> IF ret.calls = 0 THEN sv ELSE ret.first]
    /\ UNCHANGED <<pc, jobs, job_queue, ext, save_calls, got_true, last,
                   pending_run, turns, call>>

\* lines 145-177 are run once for a job that has a handle, retrieve
\* answering resp
apply_loop_body ==
    /\ pc = "call"
    /\ call.fn = "loop_body"
    /\ ret.calls = 0
    /\ \E update \in updates(call.job, call.resp) :
         \E R \in {loop_body(db, call.job, "ok", call.job.job_id + 1,
                             call.resp, update)} :
            /\ db' = R.table
            /\ ret' = [calls |-> 1, out |-> R, first |-> R]
    /\ UNCHANGED <<pc, jobs, job_queue, ext, save_calls, got_true, last,
                   pending_run, turns, call>>

\* fetch_pending_rows(conn) is called
apply_fetch_pending_rows ==
    /\ pc = "call"
    /\ call.fn = "fetch_pending_rows"
    /\ ret.calls = 0
    /\ \E q \in {fetch_pending_rows(db)} :
          ret' = [calls |-> 1, out |-> q, first |-> q]
    /\ UNCHANGED <<pc, db, jobs, job_queue, ext, save_calls, got_true, last,
                   pending_run, turns, call>>

CallNext ==
    \/ apply_fetch_pending_rows
    \/ apply_poll_result
    \/ apply_save_result
    \/ apply_loop_body

CallSpec == CallInit /\ [][CallNext]_vars

(* ------------------------------------------------------------------ *)
(* Properties                                                         *)
(* ------------------------------------------------------------------ *)
JobIds == DOMAIN jobs

Terminal(job) == job.completed \/ job.failed

InQueue(j) == \E k \in DOMAIN job_queue : job_queue[k] = j

\* the row of the job of the last pass
LastRow == jobs[last.job].rowid

\* the status of the data model: a job is in flight when the external job
\* of its last submission has not been given up and the job is not finished
InFlight(j) ==
    LET mine == ext[jobs[j].rowid]
    IN  /\ ~Terminal(jobs[j])
        /\ mine # <<>>
        /\ mine[Len(mine)].abandoned = "no"

\* C1: job.times never exceeds MAX_RETRIES, and submit_job is never called
\* for a job whose times has reached MAX_RETRIES.
C1_AttemptsBounded ==
    /\ \A j \in JobIds : jobs[j].times <= MAX_RETRIES
    /\ last.branch \in {"submit", "submit_raise"} => last.times < MAX_RETRIES

\* a submission has just used up the budget of its job
C1_Witness ==
    /\ last.branch = "submit"
    /\ jobs[last.job].times = MAX_RETRIES

\* C2: whatever create, retrieve and the UPDATE do, process_jobs returns:
\* the deque runs empty with every job completed or failed.
C2_Terminates ==
    <>(/\ pc = "closed"
       /\ job_queue = <<>>
       /\ \A j \in JobIds : Terminal(jobs[j]))

\* C3: when poll_result returns True (completion status, decodable text),
\* the same pass calls save_result once, marks the job completed and does not
\* append it to the deque again (the UPDATE raising set aside).
C3_DecodedIsSaved ==
    (last.done = "True" /\ last.error # "UPDATE") =>
        /\ last.saves = 1
        /\ last.branch = "success"
        /\ jobs[last.job].completed
        /\ ~InQueue(last.job)

\* C4: a job that has left the deque and for which poll_result never
\* returned True has failed set and times = MAX_RETRIES, exactly MAX_RETRIES
\* external jobs were created for it, save_result was never called for its
\* row, and the status column of the row is still empty.
C4_ExhaustedJob ==
    \A j \in JobIds :
        (pc # "main" /\ ~InQueue(j) /\ ~got_true[jobs[j].rowid]) =>
            /\ jobs[j].failed /\ ~jobs[j].completed
            /\ jobs[j].times = MAX_RETRIES
            /\ Len(ext[jobs[j].rowid]) = MAX_RETRIES
            /\ save_calls[jobs[j].rowid] = 0
            /\ IsPendingRow(db[jobs[j].rowid])

\* the run is over with a job all of whose attempts failed
C4_Witness ==
    /\ pc = "closed"
    /\ \E j \in JobIds : jobs[j].failed /\ ~got_true[jobs[j].rowid]

\* C5: a submission in which create raises counts as an attempt: job.times
\* is one more after the pass, and the job is appended again only while
\* times < MAX_RETRIES, and marked failed otherwise.
C5_RaisedSubmitCounted ==
    last.branch = "submit_raise" =>
        /\ jobs[last.job].times = last.times + 1
        /\ IF jobs[last.job].times < MAX_RETRIES
           THEN InQueue(last.job) /\ ~jobs[last.job].failed
           ELSE ~InQueue(last.job) /\ jobs[last.job].failed

\* C6: a completed or failed job is not in the deque; in process_jobs a pass
\* that finishes a job shortens the deque by one, any other step leaves
\* its length as it is.
C6_QueueShrinks ==
    [][pc = "process" =>
         LET newly == {j \in JobIds : Terminal(jobs'[j]) /\ ~Terminal(jobs[j])}
         IN  /\ \A j \in JobIds :
                   Terminal(jobs'[j]) => \A k \in DOMAIN job_queue' : job_queue'[k] # j
             /\ Cardinality(newly) <= 1
             /\ Len(job_queue') = Len(job_queue) - Cardinality(newly)]_vars

\* a job has just been finished while another one is still waiting
C6_Witness ==
    /\ last.branch \in {"success", "failure"}
    /\ Terminal(jobs[last.job])
    /\ job_queue # <<>>

\* C7: no job is both completed and failed, and each flag, once set, stays
\* set while the other stays clear.
C7_FlagsAbsorbing ==
    [][\A j \in JobIds :
         /\ ~(jobs'[j].completed /\ jobs'[j].failed)
         /\ jobs[j].completed => jobs'[j].completed
         /\ jobs[j].failed => jobs'[j].failed]_vars

\* one job is completed, another failed, and the loop has run on after the
\* first of them finished
C7_Witness ==
    /\ \E j \in JobIds : jobs[j].completed
    /\ \E j \in JobIds : jobs[j].failed
    /\ pc = "closed"

\* C8 as stated: job.job_id is set exactly when the job is in flight.
C8_HandleIffInFlight ==
    \A j \in JobIds : (jobs[j].job_id # None) <=> InFlight(j)

\* C8 as amended: for a job that is neither completed nor failed, job_id is set
\* exactly when the job is in flight; a completed or failed job keeps the
\* handle of its last external job.
C8_HandleOfLiveJob ==
    \A j \in JobIds :
        IF Terminal(jobs[j])
        THEN jobs[j].job_id # None
        ELSE (jobs[j].job_id # None) <=> InFlight(j)

\* a job waits for its resubmission while another is finished
C8_Witness ==
    /\ \E j \in JobIds : ~Terminal(jobs[j]) /\ jobs[j].times > 0 /\ jobs[j].job_id = None
    /\ \E j \in JobIds : Terminal(jobs[j])

\* C9: no two jobs have the same rowid, and no job is in the deque twice.
C9_OneJobPerRecord ==
    /\ \A i, j \in JobIds : i # j => jobs[i].rowid # jobs[j].rowid
    /\ \A a, b \in DOMAIN job_queue : a # b => job_queue[a] # job_queue[b]

\* two jobs are in the deque and one of them has just been appended again
C9_Witness ==
    /\ Len(job_queue) = 2
    /\ last.branch \in {"pending", "failure"}
    /\ job_queue[Len(job_queue)] = last.job

\* C10 as stated: when a job is submitted again, no external job created
\* earlier for its row is still going.
C10_NoOtherUnfinished ==
    last.branch = "submit" =>
        \A k \in 1..(Len(ext[LastRow]) - 1) : ext[LastRow][k].finished

\* C10 as amended: when a job is submitted again, an external job created
\* earlier for its row is still going only if it was given up because
\* retrieve raised or because the timeout passed.
C10_UnfinishedOnlyIfLost ==
    last.branch = "submit" =>
        \A k \in 1..(Len(ext[LastRow]) - 1) :
            \/ ext[LastRow][k].finished
            \/ ext[LastRow][k].abandoned \in {"error", "timeout"}

\* a job has been submitted again while its first external job is still going
C10_Witness ==
    /\ last.branch = "submit"
    /\ Len(ext[LastRow]) = 2
    /\ ~ext[LastRow][1].finished

\* C11: when every job of the deque is polled in turn and every poll says
\* None, then after as many passes as the deque has jobs the deque holds
\* the same jobs in the same order as before the first of these passes.
C11_FullRoundKeepsOrder ==
    (pending_run.streak > 0 /\ pending_run.streak = Len(pending_run.snap)) =>
        job_queue = pending_run.snap

\* two jobs have been polled one after the other and both polls said None
C11_Witness ==
    /\ pending_run.streak = 2
    /\ Len(pending_run.snap) = 2
    /\ last.done = "None"

\* C12: when a job comes to the head of the deque again, every job that was
\* behind it in the deque at its previous turn has been dequeued exactly
\* once since, whatever the passes in between did.
C12_RoundRobin ==
    (pc = "process" /\ job_queue # <<>>) =>
        \A k \in turns[Head(job_queue)].behind : turns[Head(job_queue)].seen[k] = 1

\* a job is at the head of the deque again after the job behind it has had
\* its turn and finished in it
C12_Witness ==
    /\ pc = "process"
    /\ job_queue # <<>>
    /\ turns[Head(job_queue)].behind # {}
    /\ \E k \in turns[Head(job_queue)].behind : Terminal(jobs[k])

\* C13: a poll answered with a status that is no completion fails when more
\* than JOB_TIMEOUT_MINUTES have passed since the submission; a poll
\* answered with running is pending when no more than that have passed.
C13_TimeoutFails ==
    (/\ ret.calls = 1
     /\ call.fn = "poll_result"
     /\ ~call.resp.raised
     /\ call.resp.status \notin {"succeeded", "completed"}) =>
        /\ elapsed(call.job) > JOB_TIMEOUT_MINUTES => ret.out.done = "False"
        /\ (elapsed(call.job) <= JOB_TIMEOUT_MINUTES /\ call.resp.status = "running")
               => ret.out.done = "None"

\* a job submitted 21 minutes ago was polled, the answer was running, and
\* the poll returned False
C13_Witness ==
    /\ ret.calls = 1
    /\ call.fn = "poll_result"
    /\ ~call.resp.raised
    /\ call.resp.status = "running"
    /\ elapsed(call.job) = JOB_TIMEOUT_MINUTES + 1
    /\ ret.out.done = "False"

\* C14: after a pass in which save_result raised, the job is finished for
\* the run: it is marked and is not in the deque, so it is neither polled
\* nor submitted again.
C14_SaveErrorTerminal ==
    last.branch = "save_raise" =>
        /\ Terminal(jobs[last.job])
        /\ ~InQueue(last.job)

\* C15: no exception ends process_jobs: the loop is never left by one, and
\* after a pass in which create or save_result raised, or poll_result
\* caught an exception or failed to decode the text (it returns False),
\* the job is either in the deque again or marked failed, not both, and the
\* loop goes on while the deque holds a job.
C15_ErrorsAreCaught ==
    /\ pc # "aborted"
    /\ (last.error # "-" \/ last.done = "False") =>
          /\ job_queue # <<>> => pc = "process"
          /\ InQueue(last.job) # jobs[last.job].failed

\* save_result has raised in the pass of a job that is now marked failed,
\* and the loop goes on with the other job
C15_Witness ==
    /\ pc = "process"
    /\ last.error \in {"UPDATE", "AttributeError"}
    /\ jobs[last.job].failed
    /\ job_queue # <<>>

\* C16: a pass whose poll is answered with a completion status and a text
\* that json.loads rejects both as it is and with the fences stripped does
\* what a pass answered with the status failed does: save_result is not
\* called, and the job is appended again with its handle cleared if
\* times < MAX_RETRIES and marked failed otherwise.
C16_UndecodableIsFailure ==
    (/\ ret.calls = 1
     /\ call.fn = "loop_body"
     /\ ~call.resp.raised
     /\ call.resp.status \in {"succeeded", "completed"}
     /\ json_loads(call.resp.output_text).kind = "JSONDecodeError"
     /\ json_loads(sub_trailing_fence(sub_leading_fence(strip(call.resp.output_text)))).kind
            = "JSONDecodeError") =>
        /\ ret.out.saves = 0
        /\ ret.out = loop_body(db, call.job, "ok", call.job.job_id + 1,
                               [raised |-> FALSE, status |-> "failed",
                                output_text |-> <<>>], "ok")
        /\ IF call.job.times < MAX_RETRIES
           THEN /\ ret.out.requeue
                /\ ret.out.job.job_id = None
                /\ ~ret.out.job.failed
           ELSE /\ ~ret.out.requeue
                /\ ret.out.job.failed

\* a first attempt completed with junk between fences, and the job goes
\* back into the deque without its handle
C16_Witness ==
    /\ ret.calls = 1
    /\ call.fn = "loop_body"
    /\ call.resp.status = "completed"
    /\ call.resp.output_text = <<FENCE, JUNK, FENCE>>
    /\ call.job.times = 1
    /\ ret.out.requeue
    /\ ret.out.job.job_id = None

\* C17: a poll answered with a completion status and a document between
\* one leading and one trailing fence, with or without the tag json,
\* returns what it returns for the document alone.
C17_FencedParsesAsBare ==
    (/\ ret.calls = 1
     /\ call.fn = "poll_result"
     /\ ~call.resp.raised
     /\ call.resp.status \in {"succeeded", "completed"}) =>
        \A d \in Docs :
            call.resp.output_text \in Fenced(d) =>
                /\ ret.out.done = "True"
                /\ ret.out = poll_result(call.job,
                                         [call.resp EXCEPT !.output_text = <<d>>])

\* a document between fences with the tag json has been decoded
C17_Witness ==
    /\ ret.calls = 1
    /\ call.fn = "poll_result"
    /\ ~call.resp.raised
    /\ call.resp.status = "completed"
    /\ call.resp.output_text = <<FENCE, TAG, WS, "D_nostatus", WS, FENCE>>
    /\ ret.out.done = "True"
    /\ ret.out.json_output = DocValue("D_nostatus")

\* C18: a second call of save_result for the same job with the same value
\* leaves the table as the first call left it.
C18_SaveIdempotent ==
    (ret.calls = 2 /\ call.fn = "save_result" /\ ret.first.raised = "-") =>
        /\ db = ret.first.table
        /\ ret.out.table = ret.first.table

\* save_result has written the same object twice
C18_Witness ==
    /\ ret.calls = 2
    /\ call.fn = "save_result"
    /\ ret.first.raised = "-"
    /\ ret.out.raised = "-"
    /\ db[call.job.rowid].ccas_status = "Coordinated"

\* C19 as stated: a poll answered with a status other than running,
\* succeeded, failed and cancelled returns what it returns for running.
C19_OtherStatusIsRunning ==
    (/\ ret.calls = 1
     /\ call.fn = "poll_result"
     /\ ~call.resp.raised
     /\ call.resp.status \notin {"running", "succeeded", "failed", "cancelled"}) =>
        ret.out = poll_result(call.job, [call.resp EXCEPT !.status = "running"])

\* C19 as amended: a poll answered with a status other than running,
\* succeeded, completed, failed and cancelled returns what it returns for
\* running; completed is a completion status like succeeded.
C19_UnknownStatusIsRunning ==
    (/\ ret.calls = 1
     /\ call.fn = "poll_result"
     /\ ~call.resp.raised
     /\ call.resp.status \notin {"running", "succeeded", "completed", "failed",
                                  "cancelled"}) =>
        ret.out = poll_result(call.job, [call.resp EXCEPT !.status = "running"])

\* a poll answered incomplete within the timeout has returned None
C19_Witness ==
    /\ ret.calls = 1
    /\ call.fn = "poll_result"
    /\ ~call.resp.raised
    /\ call.resp.status = "incomplete"
    /\ elapsed(call.job) <= JOB_TIMEOUT_MINUTES
    /\ ret.out.done = "None"

\* C20: no step changes the input column of a row; a step that changes the
\* table is a pass that called save_result, and it changes no row but the
\* one of the job of that pass.
C20_OnlySaveWrites ==
    [][/\ \A r \in RowIds : db'[r].country = db[r].country
       /\ db' # db =>
             /\ last'.branch = "success"
             /\ last'.saves = 1
             /\ \A r \in RowIds : r # jobs[last'.job].rowid => db'[r] = db[r]]_vars

\* the result of one job has been saved while the row of another job is
\* still pending
C20_Witness ==
    /\ last.branch = "success"
    /\ db[LastRow].ccas_status = "Coordinated"
    /\ \E j \in JobIds : jobs[j].rowid # LastRow /\ IsPendingRow(db[jobs[j].rowid])

\* the jobs of a fetched deque that are for row r
JobsFor(queue, r) == Cardinality({i \in DOMAIN queue : queue[i].rowid = r})

\* C21 as stated: the deque fetch_pending_rows returns holds exactly one
\* job for every row whose status column is NULL or the empty string, and
\* none for a row whose status column holds a string that is not empty.
C21_OneJobPerEmptyStatus ==
    (ret.calls = 1 /\ call.fn = "fetch_pending_rows") =>
        \A r \in RowIds :
            JobsFor(ret.out, r) = IF db[r].ccas_status \in {NULL, ""} THEN 1 ELSE 0

\* C21 as amended: the deque holds exactly one job for every row whose
\* status column is NULL, empty or made of spaces only, and none for any
\* other row.
C21_OneJobPerBlankStatus ==
    (ret.calls = 1 /\ call.fn = "fetch_pending_rows") =>
        \A r \in RowIds :
            JobsFor(ret.out, r) =
                IF db[r].ccas_status \in {NULL, "", " "} THEN 1 ELSE 0

\* a table with a blank status and a filled one has been fetched: one job,
\* for the blank row
C21_Witness ==
    /\ ret.calls = 1
    /\ call.fn = "fetch_pending_rows"
    /\ \E r \in RowIds : db[r].ccas_status = " "
    /\ \E r \in RowIds : db[r].ccas_status = "Coordinated"
    /\ Len(ret.out) = 1

\* C22: a pass over a job without a handle and with times < MAX_RETRIES
\* calls submit_job and appends the job behind every job of the deque
\* without polling it; a pass over a job that has a handle polls it.
C22_SubmitThenWait ==
    [][(pc = "process" /\ pc' = "process" /\ job_queue # <<>>) =>
         LET j == Head(job_queue)
         IN  /\ (/\ ~Terminal(jobs[j])
                 /\ jobs[j].job_id = None
                 /\ jobs[j].times < MAX_RETRIES) =>
                    /\ last'.job = j
                    /\ last'.branch \in {"submit", "submit_raise"}
                    /\ last'.done = "-"
                    /\ got_true' = got_true
                    /\ job_queue' = Append(Tail(job_queue), j)
             /\ (~Terminal(jobs[j]) /\ jobs[j].job_id # None) =>
                    /\ last'.job = j
                    /\ last'.done # "-"]_vars

\* a job has been submitted for the first time and waits behind the other
\* job
C22_Witness ==
    /\ last.branch = "submit"
    /\ last.times = 0
    /\ Len(job_queue) = 2
    /\ Head(job_queue) # last.job
    /\ job_queue[Len(job_queue)] = last.job

\* C23: a pass whose poll says False leaves job.times as it was, and with
\* times < MAX_RETRIES clears the handle and appends the job to the deque,
\* and with times = MAX_RETRIES marks the job failed and does not append
\* it; job.times never decreases and changes only in a pass in which create
\* returned, by one.
C23_FailureRetriesOrFails ==
    [][\A j \in JobIds :
         /\ jobs'[j].times >= jobs[j].times
         /\ jobs'[j].times # jobs[j].times =>
               /\ last'.branch = "submit"
               /\ last'.job = j
               /\ jobs'[j].times = jobs[j].times + 1
         /\ (/\ pc = "process" /\ pc' = "process"
             /\ last'.branch = "failure"
             /\ j = Head(job_queue)) =>
               /\ jobs'[j].times = jobs[j].times
               /\ jobs[j].times <= MAX_RETRIES
               /\ IF jobs[j].times < MAX_RETRIES
                  THEN /\ jobs'[j].job_id = None
                       /\ ~jobs'[j].failed
                       /\ job_queue' = Append(Tail(job_queue), j)
                  ELSE /\ jobs'[j].failed
                       /\ job_queue' = Tail(job_queue)]_vars

\* the second attempt of a job has failed like the first, and the job is
\* marked failed with its two attempts counted
C23_Witness ==
    /\ last.branch = "failure"
    /\ last.times = MAX_RETRIES
    /\ jobs[last.job].failed
    /\ jobs[last.job].times = MAX_RETRIES
    /\ ~InQueue(last.job)

\* C24: the loop body run for a job without a handle whose times is
\* MAX_RETRIES or more marks the job failed and does not append it; create
\* is not called and times stays as it was.
C24_SpentJobFails ==
    (/\ ret.calls = 1
     /\ call.fn = "loop_body"
     /\ call.job.job_id = None
     /\ call.job.times >= MAX_RETRIES) =>
        /\ ret.out.job.failed
        /\ ~ret.out.job.completed
        /\ ~ret.out.requeue
        /\ ~ret.out.created
        /\ ret.out.saves = 0
        /\ ret.out.job.times = call.job.times
        /\ ret.out.job.job_id = None

\* a job without a handle and with a spent budget has been marked failed
\* in a pass in which retrieve would have answered completed
C24_Witness ==
    /\ ret.calls = 1
    /\ call.fn = "loop_body"
    /\ call.job.job_id = None
    /\ call.job.times = MAX_RETRIES
    /\ ~call.resp.raised
    /\ call.resp.status = "completed"
    /\ ret.out.job.failed
    /\ ret.out.branch = "failure"

\* C25: a pass in which create returns is a pass over a job without a
\* handle and with times < MAX_RETRIES; it sets job_id to the id of the
\* external job just created, adds one to times and stamps the job with
\* the time of the call (the stamp is as old as the pass took).
C25_SubmitSetsJob ==
    [][(/\ pc = "process" /\ pc' = "process"
        /\ job_queue # <<>>
        /\ last'.branch = "submit") =>
         LET j == Head(job_queue)
             row == jobs[j].rowid
         IN  /\ jobs[j].job_id = None
             /\ jobs[j].times < MAX_RETRIES
             /\ Len(ext'[row]) = Len(ext[row]) + 1
             /\ jobs'[j].job_id = Len(ext'[row])
             /\ jobs'[j].times = jobs[j].times + 1
             /\ \E d \in Delays : jobs'[j].submitted_at = now - d
             /\ jobs'[j].submitted_at # None
             /\ \A i \in JobIds : i # j =>
                   /\ jobs'[i].job_id = jobs[i].job_id
                   /\ jobs'[i].times = jobs[i].times]_vars

\* a job has been submitted for the second time, twenty minutes have
\* passed since, and it has the handle of its second external job
C25_Witness ==
    /\ last.branch = "submit"
    /\ last.times = 1
    /\ jobs[last.job].job_id = 2
    /\ jobs[last.job].submitted_at = now - JOB_TIMEOUT_MINUTES

\* C26: a pass whose poll says None moves the job from the head of the
\* deque to its tail and changes nothing else: the handle, times and the
\* flags of the job, its stamp (which only grows older by the minutes the
\* pass took), the table, the external jobs and the other jobs' fields.
C26_PendingChangesNothing ==
    [][(/\ pc = "process" /\ pc' = "process"
        /\ job_queue # <<>>
        /\ last'.done = "None") =>
         LET j == Head(job_queue)
         IN  /\ job_queue' = Append(Tail(job_queue), j)
             /\ last'.branch = "pending"
             /\ db' = db
             /\ ext' = ext
             /\ save_calls' = save_calls
             /\ \A i \in JobIds :
                   /\ jobs'[i].job_id = jobs[i].job_id
                   /\ jobs'[i].times = jobs[i].times
                   /\ jobs'[i].completed = jobs[i].completed
                   /\ jobs'[i].failed = jobs[i].failed
                   /\ jobs'[i].rowid = jobs[i].rowid
             /\ jobs[j].job_id # None
             /\ \E d \in Delays :
                   jobs'[j].submitted_at = Max(jobs[j].submitted_at - d, 0)]_vars

\* a job polled exactly twenty minutes after its submission is still
\* pending and waits behind the other job
C26_Witness ==
    /\ last.done = "None"
    /\ jobs[last.job].submitted_at = now - JOB_TIMEOUT_MINUTES
    /\ Len(job_queue) = 2
    /\ job_queue[Len(job_queue)] = last.job

\* C27: the row of a job that is marked completed is not pending: its
\* status column is neither NULL nor blank, and fetch_pending_rows does not
\* select it.
C27_CompletedNotPending ==
    \A j \in JobIds :
        jobs[j].completed =>
            /\ ~IsPendingRow(db[jobs[j].rowid])
            /\ \A i \in DOMAIN fetch_pending_rows(db) :
                  fetch_pending_rows(db)[i].rowid # jobs[j].rowid

\* C28: a poll answered succeeded or completed with a text that decodes
\* returns True however long ago the job was submitted, and for the
\* statuses succeeded, completed, failed and cancelled the poll returns
\* what it returns for a job submitted just now.
C28_CompletionBeforeTimeout ==
    (/\ ret.calls = 1
     /\ call.fn = "poll_result"
     /\ ~call.resp.raised
     /\ call.resp.status \in {"succeeded", "completed", "failed", "cancelled"}) =>
        /\ (/\ call.resp.status \in {"succeeded", "completed"}
            /\ \E d \in Docs : strip(call.resp.output_text) = <<d>>) =>
               ret.out.done = "True"
        /\ ret.out = poll_result([call.job EXCEPT !.submitted_at = now], call.resp)

\* a job submitted 21 minutes ago was polled, the answer was succeeded with
\* a document, and the poll returned True with the decoded object
C28_Witness ==
    /\ ret.calls = 1
    /\ call.fn = "poll_result"
    /\ ~call.resp.raised
    /\ call.resp.status = "succeeded"
    /\ call.resp.output_text = <<"D_full">>
    /\ elapsed(call.job) > JOB_TIMEOUT_MINUTES
    /\ ret.out.done = "True"
    /\ ret.out.json_output = DocValue("D_full")

\* C29: a job that has a handle has a stamp and times >= 1, and every pass
\* that calls poll_result is over a job that has a handle (and so a stamp).
C29_HandleHasStamp ==
    /\ \A j \in JobIds :
          jobs[j].job_id # None =>
              /\ jobs[j].submitted_at # None
              /\ jobs[j].times >= 1
    /\ last.done # "-" => last.job_id # None

\* a job submitted again after a failure has been polled with the handle
\* of its second external job
C29_Witness ==
    /\ last.done # "-"
    /\ last.job_id = 2
    /\ last.times = MAX_RETRIES
    /\ jobs[last.job].submitted_at # None

====
